---- MODULE Spec2Model ----
(***************************************************************************)
(* Model of src/index.js: the angle-to-code mapping longitudeToGate, the   *)
(* design-epoch search findSunAtLongitude and the chart orchestration      *)
(* calculateChart behind the POST /calculate handler.                      *)
(*                                                                         *)
(* Numbers.  The source computes on decimal literals with up to nine       *)
(* decimals.  The model computes exactly on a decimal grid.  An angle is a *)
(* record [h, l] whose value is h * 10^-5 + l * 10^-9 degrees, with        *)
(* l in 0..Scale-1 and h any integer (h < 0 for negative angles).  Times   *)
(* and the angles exchanged with the ephemeris provider are integers in    *)
(* units of 10^-5 (degrees or days), relative to a reference day.          *)
(***************************************************************************)
EXTENDS Integers, Sequences, FiniteSets, TLC

\* ---------------------------------------------------------------- bounds
\* input longitudes span -MaxTurns .. MaxTurns full circles around [0, 360)
MaxTurns == 1
\* input longitudes lie within MaxNudge * 10^-9 degrees of an arc boundary
MaxNudge == 1
\* birth instants are whole days 0 .. MaxBirthDay after the reference day
MaxBirthDay == 1

\* ------------------------------------------------------- decimal grid
Scale == 10000
H360 == 36000000
H180 == 18000000

P(h, l) == [h |-> h, l |-> l]

PAdd(a, b) ==
  LET s == a.l + b.l
  IN  IF s >= Scale THEN P(a.h + b.h + 1, s - Scale) ELSE P(a.h + b.h, s)

PNeg(a) == IF a.l = 0 THEN P(-a.h, 0) ELSE P(-a.h - 1, Scale - a.l)

PInCircle(a) == a.h >= 0 /\ a.h < H360 /\ a.l >= 0 /\ a.l < Scale

\* x % 360 of JavaScript: the remainder takes the sign of the dividend.
JsRem360(a) ==
  IF a.h >= 0 THEN P(a.h % H360, a.l)
  ELSE LET m == PNeg(a) IN PNeg(P(m.h % H360, m.l))

\* The mathematical residue in [0, 360).
Mod360(a) == P(a.h % H360, a.l)

Min(a, b) == IF a < b THEN a ELSE b

\* ------------------------------------------------------------ constants
GATE_ORDER ==
  << 41, 19, 13, 49, 30, 55, 37, 63, 22, 36, 25, 17, 21, 51, 42, 3,
     27, 24, 2, 23, 8, 20, 16, 35, 45, 12, 15, 52, 39, 53, 62, 56,
     31, 33, 7, 4, 29, 59, 40, 64, 47, 6, 46, 18, 48, 57, 32, 50,
     28, 44, 1, 43, 14, 34, 9, 5, 26, 11, 10, 58, 38, 54, 61, 60 >>

\* 5.625 and 0.9375 in units of 10^-5 degrees
DEGREES_PER_GATE == 562500
DEGREES_PER_LINE == 93750
\* 0.15625, 0.026041667 and 0.005208333 in units of 10^-9 degrees
DEGREES_PER_COLOR == 156250000
DEGREES_PER_TONE == 26041667
DEGREES_PER_BASE == 5208333

\* 58.93 degrees
HD_OFFSET == P(5893000, 0)

\* ------------------------------------------------------- longitudeToGate
\* let deg = ((longitude % 360) + 360) % 360
Normalize(longitude) == JsRem360(PAdd(JsRem360(longitude), P(H360, 0)))

\* let wheelPos = (deg + HD_OFFSET) % 360
WheelPos(deg) == JsRem360(PAdd(deg, HD_OFFSET))

\* The locals gateIndex, line, color, tone, base before the min-clamp.
RawDigits(longitude) ==
  LET wheelPos   == WheelPos(Normalize(longitude))
      gateIndex  == wheelPos.h \div DEGREES_PER_GATE
      posInGate  == wheelPos.h % DEGREES_PER_GATE
      line       == (posInGate \div DEGREES_PER_LINE) + 1
      posInLine  == (posInGate % DEGREES_PER_LINE) * Scale + wheelPos.l
      color      == (posInLine \div DEGREES_PER_COLOR) + 1
      posInColor == posInLine % DEGREES_PER_COLOR
      tone       == (posInColor \div DEGREES_PER_TONE) + 1
      posInTone  == posInColor % DEGREES_PER_TONE
      base       == (posInTone \div DEGREES_PER_BASE) + 1
  IN  [gateIndex |-> gateIndex, line |-> line, color |-> color,
       tone |-> tone, base |-> base]

\* the min-clamp left out
ClampNone(digit, radix) == digit

Clamp(digit, radix) == Min(digit, radix)

longitudeToGate(longitude) ==
  LET deg      == Normalize(longitude)
      wheelPos == WheelPos(deg)
      raw      == RawDigits(longitude)
      gate     == GATE_ORDER[raw.gateIndex + 1]
  IN  [gate |-> gate,
       line |-> Clamp(raw.line, 6),
       color |-> Clamp(raw.color, 6),
       tone |-> Clamp(raw.tone, 6),
       base |-> Clamp(raw.base, 5),
       longitude |-> deg,
       wheelPosition |-> wheelPos,
       formatted |-> << gate, Clamp(raw.line, 6), Clamp(raw.color, 6),
                        Clamp(raw.tone, 6), Clamp(raw.base, 5) >>]

\* ------------------------------------------------------------ the bodies
\* Object.entries(PLANETS), in insertion order
PLANETS ==
  << "Sun", "Moon", "Mercury", "Venus", "Mars", "Jupiter", "Saturn",
     "Uranus", "Neptune", "Pluto", "NorthNode", "Chiron" >>

PlanetNames == { PLANETS[k] : k \in 1 .. Len(PLANETS) }

\* ------------------------------------------------------------------ state
VARIABLES
  glon,        \* longitudeToGate: the argument
  gcode,       \* longitudeToGate: the value returned, NoCode before the call
  birthDate,   \* request body: "missing", "invalid" or "valid"
  birthJd,     \* dateToJulian(birthDate), in 10^-5 days from the reference day
  provider,    \* the ephemeris the process was started with
  pc,          \* position of the request in the handler
  birthSunLon, \* calculateChart: birthSunLon
  targetLon,   \* findSunAtLongitude: targetLon
  jd,          \* findSunAtLongitude: jd
  iterations,  \* findSunAtLongitude: iterations
  designJd,    \* calculateChart: designJd, 0 until the search returns
  personality, \* result.personality
  design,      \* result.design
  idx,         \* position of the for-loops over PLANETS
  response,    \* what the handler sent, [status |-> 0] before it answers
  trace        \* observations of the run (not program state)

chartVars == << birthDate, birthJd, provider, pc, birthSunLon, targetLon, jd,
                iterations, designJd, personality, design, idx, response,
                trace >>

gateVars == << glon, gcode >>

vars == << glon, gcode, birthDate, birthJd, provider, pc, birthSunLon,
           targetLon, jd, iterations, designJd, personality, design, idx,
           response, trace >>

NoCode == [gate |-> 0]

NoTrace ==
  [queried |-> {},          \* bodies handed to the provider
   failed |-> {},           \* << epoch, body >> whose loop query set error
   resolved |-> {},         \* << epoch, body >> whose loop query succeeded
   birthSunError |-> FALSE, \* the birth-epoch Sun query set error
   searchSunError |-> FALSE,\* a Sun query of the search set error
   sunQueries |-> 0,        \* Sun queries made by the search
   lastJd |-> 0,            \* time of the search's latest Sun query
   lastSunLon |-> 0,        \* longitude that query returned
   missed |-> 0,            \* queries of the search outside the tolerance
   path |-> "none"]         \* "converged" or "fallback" once it returned

\* ------------------------------------- longitudeToGate as a pure function
PFromNano(n) == P(n \div Scale, n % Scale)

\* wheel positions at and next to gate, line, color, tone and base arcs
WheelPoints ==
  { PAdd(P(g * DEGREES_PER_GATE + a * DEGREES_PER_LINE, 0),
         PFromNano(b * DEGREES_PER_COLOR + c * DEGREES_PER_TONE
                   + d * DEGREES_PER_BASE + e)) :
      g \in {0, 10, 63}, a \in {0, 5}, b \in {0, 5}, c \in {0, 5},
      d \in {0, 4, 5}, e \in -MaxNudge .. MaxNudge }

GateInputs ==
  { PAdd(PAdd(w, PNeg(HD_OFFSET)), P(k * H360, 0)) :
      w \in WheelPoints, k \in -MaxTurns .. MaxTurns }

ChartIdle ==
  /\ birthDate = "missing"
  /\ birthJd = 0
  /\ provider = [sunAtRef |-> 0, sunRate |-> 0, failBodies |-> {},
                 failWhen |-> "never", garbage |-> 0]
  /\ pc = "idle"
  /\ birthSunLon = 0
  /\ targetLon = 0
  /\ jd = 0
  /\ iterations = 0
  /\ designJd = 0
  /\ personality = << >>
  /\ design = << >>
  /\ idx = 0
  /\ response = [status |-> 0]
  /\ trace = NoTrace

InitGate ==
  /\ glon \in GateInputs
  /\ gcode = NoCode
  /\ ChartIdle

MapLongitude ==
  /\ gcode = NoCode
  /\ gcode' = longitudeToGate(glon)
  /\ UNCHANGED << glon, chartVars >>

NextGate == MapLongitude

SpecGate == InitGate /\ [][NextGate]_vars

\* ------------------------------------------------- the ephemeris provider
\* sweph.calc_ut(jd, planetId, flags) returns {error, data}; on failure it
\* sets error and data[0] holds no position.  The provider is a function of
\* (time, body): the Sun moves provider.sunRate / 1000 degrees a day from
\* provider.sunAtRef, each body of PLANETS runs 19.5 degrees ahead of the one
\* before it, and the
\* bodies of provider.failBodies fail at the times provider.failWhen names.
IndexOf(name) == CHOOSE k \in 1 .. Len(PLANETS) : PLANETS[k] = name

Motion(rate, t) == rate * (t \div 1000) + ((rate * (t % 1000)) \div 1000)

BodyLon(t, name) ==
  (provider.sunAtRef + (IndexOf(name) - 1) * 1950000
     + Motion(provider.sunRate, t)) % H360

Fails(t, name) ==
  /\ name \in provider.failBodies
  /\ \/ provider.failWhen = "always"
     \/ provider.failWhen = "atBirth" /\ t = birthJd
     \/ provider.failWhen = "notAtBirth" /\ t # birthJd

calc_ut(t, name) ==
  IF Fails(t, name)
  THEN [error |-> TRUE, data0 |-> provider.garbage]
  ELSE [error |-> FALSE, data0 |-> BodyLon(t, name)]

\* ------------------------------------------------------ findSunAtLongitude
MaxIterations == 200
\* 0.0001 degrees
Tolerance == 10
\* 88 days
FallbackDays == 8800000
\* 88 degrees
DesignArc == 8800000

Abs(x) == IF x < 0 THEN -x ELSE x

\* x % m of JavaScript on whole grid units
JsRem(x, m) == IF x >= 0 THEN x % m ELSE -((-x) % m)

\* ((x % 360) + 360) % 360
Norm360(x) == JsRem(JsRem(x, H360) + H360, H360)

\* let diff = targetLon - sunLon; if (diff > 180) diff -= 360;
\* if (diff < -180) diff += 360
AngleDiff(target, sunLon) ==
  LET d == target - sunLon
      e == IF d > H180 THEN d - H360 ELSE d
  IN  IF e < -H180 THEN e + H360 ELSE e

\* Math.abs(diff) < 0.0001
WithinTolerance(diff) == Abs(diff) < Tolerance

\* the default of the parameter direction, passed again at the call
Direction == -1

\* jd += diff * direction
NextJd(t, diff) == t + diff * Direction

\* the fallback taken forward in time
FallbackTimeForward(startJd) == startJd + FallbackDays

\* return startJd - 88
FallbackTime(startJd) == startJd - FallbackDays

\* -------------------------------------------------------- calculateChart
Put(map, key, value) ==
  [k \in DOMAIN map \cup {key} |-> IF k = key THEN value ELSE map[k]]

\* the error check left out
StoreBodyUnchecked(map, name, calc) ==
  Put(map, name, longitudeToGate(P(calc.data0, 0)))

\* if (calc.error) continue; result[...][name] = longitudeToGate(calc.data[0])
StoreBody(map, name, calc) ==
  IF calc.error THEN map
  ELSE Put(map, name, longitudeToGate(P(calc.data0, 0)))

\* the opposition taken of the wheel position
OppositeOfWheel(code) == JsRem360(PAdd(code.wheelPosition, P(H180, 0)))

\* (x.longitude + 180) % 360
Opposite(code) == JsRem360(PAdd(code.longitude, P(H180, 0)))

\* if (map.NorthNode) map.SouthNode = ...; if (map.Sun) map.Earth = ...
Derive(map) ==
  LET withSouth ==
        IF "NorthNode" \in DOMAIN map
        THEN Put(map, "SouthNode", longitudeToGate(Opposite(map["NorthNode"])))
        ELSE map
  IN  IF "Sun" \in DOMAIN withSouth
      THEN Put(withSouth, "Earth", longitudeToGate(Opposite(withSouth["Sun"])))
      ELSE withSouth

\* --------------------------------------------------------------- requests
BirthTimes == { d * 100000 : d \in 0 .. MaxBirthDay }

\* 88.00005, 88.0001 and 123.45678 degrees
SunStarts == { 8800005, 8800010, 12345678 }

SunRates == { 1000, 986, -1000 }

FailSets ==
  {{}} \cup { {b} : b \in PlanetNames } \cup { {"Sun", b} : b \in PlanetNames }
       \cup { PlanetNames }

Providers ==
  { [sunAtRef |-> s, sunRate |-> r, failBodies |-> {}, failWhen |-> "never",
     garbage |-> 0] : s \in SunStarts, r \in SunRates }
  \cup
  { [sunAtRef |-> s, sunRate |-> r, failBodies |-> f, failWhen |-> w,
     garbage |-> 0] :
      s \in SunStarts, r \in SunRates, f \in FailSets \ {{}},
      w \in {"always", "atBirth", "notAtBirth"} }

Init ==
  /\ glon = P(0, 0)
  /\ gcode = NoCode
  /\ birthDate \in {"missing", "invalid", "valid"}
  /\ birthJd \in IF birthDate = "valid" THEN BirthTimes ELSE {0}
  /\ provider \in IF birthDate = "valid" THEN Providers
                  ELSE { [sunAtRef |-> 0, sunRate |-> 1000, failBodies |-> {},
                          failWhen |-> "never", garbage |-> 0] }
  /\ pc = "request"
  /\ birthSunLon = 0
  /\ targetLon = 0
  /\ jd = 0
  /\ iterations = 0
  /\ designJd = 0
  /\ personality = << >>
  /\ design = << >>
  /\ idx = 0
  /\ response = [status |-> 0]
  /\ trace = NoTrace

\* app.post('/calculate'): if (!birthDate) 400; if (isNaN(date.getTime())) 400
RejectRequest ==
  /\ pc = "request"
  /\ birthDate \in {"missing", "invalid"}
  /\ response' = [status |-> 400]
  /\ pc' = "done"
  /\ UNCHANGED << gateVars, birthDate, birthJd, provider, birthSunLon,
                  targetLon, jd, iterations, designJd, personality, design,
                  idx, trace >>

\* calculateChart up to the call of findSunAtLongitude, and that function's
\* first lines
BirthSun ==
  /\ pc = "request"
  /\ birthDate = "valid"
  /\ LET birthSun == calc_ut(birthJd, "Sun")
     IN  /\ birthSunLon' = birthSun.data0
         /\ targetLon' = Norm360(Norm360(birthSun.data0 - DesignArc))
         /\ trace' = [trace EXCEPT !.queried = @ \cup {"Sun"},
                                   !.birthSunError = birthSun.error]
  /\ jd' = birthJd
  /\ iterations' = 0
  /\ pc' = "search"
  /\ UNCHANGED << gateVars, birthDate, birthJd, provider, designJd,
                  personality, design, idx, response >>

\* one pass of while (iterations < 200)
SearchIterate ==
  /\ pc = "search"
  /\ iterations < MaxIterations
  /\ LET sun  == calc_ut(jd, "Sun")
         diff == AngleDiff(targetLon, sun.data0)
         seen == [trace EXCEPT !.queried = @ \cup {"Sun"},
                               !.searchSunError = @ \/ sun.error,
                               !.sunQueries = @ + 1,
                               !.lastJd = jd,
                               !.lastSunLon = sun.data0]
     IN  IF WithinTolerance(diff)
         THEN /\ designJd' = jd
              /\ pc' = "personality"
              /\ idx' = 1
              /\ trace' = [seen EXCEPT !.path = "converged"]
              /\ UNCHANGED << jd, iterations >>
         ELSE /\ jd' = NextJd(jd, diff)
              /\ iterations' = iterations + 1
              /\ trace' = [seen EXCEPT !.missed = @ + 1]
              /\ UNCHANGED << designJd, pc, idx >>
  /\ UNCHANGED << gateVars, birthDate, birthJd, provider, birthSunLon,
                  targetLon, personality, design, response >>

\* the loop ran out: return startJd - 88
SearchFallback ==
  /\ pc = "search"
  /\ ~(iterations < MaxIterations)
  /\ designJd' = FallbackTime(birthJd)
  /\ pc' = "personality"
  /\ idx' = 1
  /\ trace' = [trace EXCEPT !.path = "fallback"]
  /\ UNCHANGED << gateVars, birthDate, birthJd, provider, birthSunLon,
                  targetLon, jd, iterations, personality, design, response >>

\* one pass of the first for-loop over PLANETS
PersonalityBody ==
  /\ pc = "personality"
  /\ idx <= Len(PLANETS)
  /\ LET name == PLANETS[idx]
         calc == calc_ut(birthJd, name)
     IN  /\ personality' = StoreBody(personality, name, calc)
         /\ trace' = [trace EXCEPT
                        !.queried = @ \cup {name},
                        !.failed = IF calc.error
                                   THEN @ \cup {<< "personality", name >>}
                                   ELSE @,
                        !.resolved = IF calc.error THEN @
                                     ELSE @ \cup {<< "personality", name >>}]
  /\ idx' = idx + 1
  /\ UNCHANGED << gateVars, birthDate, birthJd, provider, pc, birthSunLon,
                  targetLon, jd, iterations, designJd, design, response >>

\* South Node and Earth of the personality map
PersonalityDerive ==
  /\ pc = "personality"
  /\ idx > Len(PLANETS)
  /\ personality' = Derive(personality)
  /\ pc' = "design"
  /\ idx' = 1
  /\ UNCHANGED << gateVars, birthDate, birthJd, provider, birthSunLon,
                  targetLon, jd, iterations, designJd, design, response,
                  trace >>

\* one pass of the second for-loop over PLANETS
DesignBody ==
  /\ pc = "design"
  /\ idx <= Len(PLANETS)
  /\ LET name == PLANETS[idx]
         calc == calc_ut(designJd, name)
     IN  /\ design' = StoreBody(design, name, calc)
         /\ trace' = [trace EXCEPT
                        !.queried = @ \cup {name},
                        !.failed = IF calc.error
                                   THEN @ \cup {<< "design", name >>}
                                   ELSE @,
                        !.resolved = IF calc.error THEN @
                                     ELSE @ \cup {<< "design", name >>}]
  /\ idx' = idx + 1
  /\ UNCHANGED << gateVars, birthDate, birthJd, provider, pc, birthSunLon,
                  targetLon, jd, iterations, designJd, personality,
                  response >>

\* South Node and Earth of the design map; return result
DesignDerive ==
  /\ pc = "design"
  /\ idx > Len(PLANETS)
  /\ design' = Derive(design)
  /\ pc' = "respond"
  /\ UNCHANGED << gateVars, birthDate, birthJd, provider, birthSunLon,
                  targetLon, jd, iterations, designJd, personality, idx,
                  response, trace >>

\* res.json({ success: true, birthDate, ...chart })
Respond ==
  /\ pc = "respond"
  /\ response' = [status |-> 200,
                  success |-> TRUE,
                  birthJulianDay |-> birthJd,
                  designJulianDay |-> designJd,
                  personality |-> personality,
                  design |-> design]
  /\ pc' = "done"
  /\ UNCHANGED << gateVars, birthDate, birthJd, provider, birthSunLon,
                  targetLon, jd, iterations, designJd, personality, design,
                  idx, trace >>

Next ==
  \/ RejectRequest
  \/ BirthSun
  \/ SearchIterate
  \/ SearchFallback
  \/ PersonalityBody
  \/ PersonalityDerive
  \/ DesignBody
  \/ DesignDerive
  \/ Respond

Spec == Init /\ [][Next]_vars

\* ======================================================================
\* Properties
\* ======================================================================
Epochs == {"personality", "design"}

ChartFields ==
  {"status", "success", "birthJulianDay", "designJulianDay", "personality",
   "design"}

ChartReturned == pc = "done" /\ response.status = 200

\* the Sun advances steadily at about one degree a day and always resolves
SteadySun == provider.sunRate \in {986, 1000} /\ provider.failBodies = {}

\* C1: with a Sun advancing steadily at about 1 degree per time-unit, the
\* search started at the birth time converges within its budget; the
\* fallback return is never taken.
C1_SteadySunConverges ==
  (SteadySun /\ trace.path # "none") => trace.path = "converged"

\* C2: once a Sun query of the search has failed at the provider, the
\* search returns no time (neither a converged one nor the fallback) and
\* no chart is sent.
C2_SearchFailureAborts ==
  trace.searchSunError => (trace.path = "none" /\ response.status # 200)

\* C3: when the Sun does not resolve at the birth epoch the search is not
\* entered, no design time is derived and no chart is sent.
C3_BirthSunFailureAborts ==
  trace.birthSunError =>
    /\ pc \notin {"search", "personality", "design", "respond"}
    /\ trace.path = "none"
    /\ response.status # 200

\* C4: when the request is answered, every body queried in an epoch's loop
\* (the birth-epoch Sun apart) whose query failed is absent from that
\* epoch's map while the chart is still sent, every body whose query
\* succeeded is present in it, and both loops queried every tracked body.
C4_PartialResult ==
  (pc = "done" /\ birthDate = "valid") =>
    /\ \A e \in Epochs, b \in PlanetNames :
         /\ (<< e, b >> \in trace.failed /\ << e, b >> # << "personality", "Sun" >>)
              => (response.status = 200 /\ b \notin DOMAIN response[e])
         /\ << e, b >> \in trace.resolved
              => (response.status = 200 /\ b \in DOMAIN response[e])
    /\ trace.failed \cup trace.resolved = Epochs \X PlanetNames
    /\ trace.failed \cap trace.resolved = {}

C4_Witness ==
  /\ ChartReturned
  /\ << "personality", "Moon" >> \in trace.failed
  /\ << "design", "Moon" >> \in trace.resolved
  /\ "Moon" \notin DOMAIN response.personality
  /\ "Moon" \in DOMAIN response.design

OpposedIn(map, derived, from) ==
  /\ derived \in DOMAIN map <=> from \in DOMAIN map
  /\ from \in DOMAIN map =>
       /\ map[derived].longitude = Mod360(PAdd(map[from].longitude, P(H180, 0)))
       /\ map[derived] = longitudeToGate(map[derived].longitude)

\* C5: in both maps of a returned chart Earth is present exactly when Sun
\* is, at Sun's stored longitude + 180 mod 360, and SouthNode exactly when
\* NorthNode is, at NorthNode's stored longitude + 180 mod 360; the
\* provider is never asked for Earth or SouthNode.
C5_OppositionLaw ==
  /\ trace.queried \subseteq PlanetNames
  /\ trace.queried \cap {"Earth", "SouthNode"} = {}
  /\ ChartReturned =>
       \A e \in Epochs :
         /\ OpposedIn(response[e], "Earth", "Sun")
         /\ OpposedIn(response[e], "SouthNode", "NorthNode")

\* a chart whose personality South Node wraps past 360 and whose design map
\* has lost the Sun, hence Earth
C5_Witness ==
  /\ ChartReturned
  /\ "SouthNode" \in DOMAIN response.personality
  /\ response.personality["NorthNode"].longitude.h >= H180
  /\ "Earth" \in DOMAIN response.personality
  /\ "Sun" \notin DOMAIN response.design
  /\ "NorthNode" \in DOMAIN response.design

\* C6: for every input longitude the code returned has its gate taken from
\* the permutation at the arc index of the wheel position, an index in
\* 0..63; line, color and tone in 1..6, base in 1..5; longitude and
\* wheelPosition in [0, 360); wheelPosition = (longitude + 58.93) mod 360.
C6_GateCodeInRange ==
  gcode # NoCode =>
    /\ PInCircle(gcode.longitude)
    /\ PInCircle(gcode.wheelPosition)
    /\ gcode.wheelPosition = Mod360(PAdd(gcode.longitude, HD_OFFSET))
    /\ \E i \in 0 .. 63 :
         /\ i * DEGREES_PER_GATE <= gcode.wheelPosition.h
         /\ gcode.wheelPosition.h < (i + 1) * DEGREES_PER_GATE
         /\ gcode.gate = GATE_ORDER[i + 1]
    /\ gcode.gate \in 1 .. 64
    /\ gcode.line \in 1 .. 6
    /\ gcode.color \in 1 .. 6
    /\ gcode.tone \in 1 .. 6
    /\ gcode.base \in 1 .. 5

\* a negative input lying where the unclamped base digit is 6
C6_Witness ==
  /\ gcode # NoCode
  /\ glon.h < 0
  /\ RawDigits(glon).base = 6
  /\ gcode.base = 5

\* C7: a chart built from the fallback design time carries a marker of the
\* degraded estimate besides the fields of a converged chart.
C7_FallbackFlagged ==
  (ChartReturned /\ trace.path = "fallback") => DOMAIN response # ChartFields

\* C8: the search makes at most 200 Sun queries; what it returns is the
\* time of its latest query, whose Sun longitude is within 0.0001 degrees
\* of the target (difference wrapped into [-180, 180]), or, after 200
\* queries that all missed the tolerance, exactly the start time - 88.
C8_SearchBounded ==
  /\ trace.sunQueries <= 200
  /\ trace.path = "none" => trace.sunQueries = trace.missed
  /\ trace.path = "converged" =>
       /\ designJd = trace.lastJd
       /\ \E k \in {-1, 0, 1} :
            LET d == targetLon - trace.lastSunLon + k * H360
            IN  d >= -H180 /\ d <= H180 /\ d > -Tolerance /\ d < Tolerance
  /\ trace.path = "fallback" =>
       /\ designJd = birthJd - 8800000
       /\ trace.sunQueries = 200
       /\ trace.missed = 200

\* the search converged on a later query than its first
C8_Witness ==
  /\ trace.path = "converged"
  /\ trace.sunQueries >= 2
  /\ targetLon # trace.lastSunLon

\* C9: with a steadily advancing Sun every pass of the search that does not
\* converge moves jd back in time, and the design time of a returned chart
\* is earlier than its birth time.
C9_SearchMovesBack ==
  /\ [][(SteadySun /\ pc = "search" /\ iterations' = iterations + 1)
          => jd' < jd]_vars
  /\ [](ChartReturned => response.designJulianDay < response.birthJulianDay)

\* C10: the step constants nest exactly (each is its parent's step divided
\* by its radix), so no wheel position yields an unclamped line, color or
\* tone above 6 or an unclamped base above 5.
C10_StepsNestExactly ==
  gcode # NoCode =>
    /\ DEGREES_PER_LINE * 6 = DEGREES_PER_GATE
    /\ DEGREES_PER_COLOR * 6 = DEGREES_PER_LINE * Scale
    /\ DEGREES_PER_TONE * 6 = DEGREES_PER_COLOR
    /\ DEGREES_PER_BASE * 5 = DEGREES_PER_TONE
    /\ RawDigits(glon).line <= 6
    /\ RawDigits(glon).color <= 6
    /\ RawDigits(glon).tone <= 6
    /\ RawDigits(glon).base <= 5

====
